---- MODULE Spec2Model ----
(***************************************************************************)
(* A model of analyse_avr_call_tree.py: the construction of a Function     *)
(* record from the lines of a listing block (Function.__init__,            *)
(* analyse_call, count_pushes), the Function Index built by process_lss,   *)
(* and the recursive call-tree walk of print_call_tree driven by main.     *)
(*                                                                         *)
(* Python's None is modelled as the value None (-1): every integer the     *)
(* program computes is a stack size, hence >= 0.  The recursion of         *)
(* print_call_tree is modelled by an explicit stack of frames holding the  *)
(* locals of each invocation.                                              *)
(***************************************************************************)
EXTENDS Integers, Sequences, FiniteSets, TLC

VARIABLES
    all_funcs,  \* the global Function Index: name -> Function
    func,       \* main: the root function name (args.func)
    pc,         \* position of the program
    stack,      \* the invocations of print_call_tree in progress, outermost first
    ss,         \* main: the value print_call_tree returned
    ret,        \* the last return of print_call_tree: who returned what
    out,        \* the last line printed on stdout
    stderr,     \* whether main wrote its "not found" message
    py,         \* the interpreter: 0 not yet observed, 2 (None orders below every
                \* int, map is eager), 3 (None and int are unorderable, map is lazy)
    exc,        \* the exception that ended the program, "" when none
    lines,      \* Function.__init__: the lines of the block
    fn,         \* Function.__init__: self
    at,         \* the position of the loop in progress
    scan,       \* count_pushes: count, done_pushes, nr_in
    chunks,     \* get_funcs: the blocks of the listing
    funcs       \* process_lss: the Functions built so far

walk_vars == <<func, stack, ss, ret, out, stderr>>

build_vars == <<lines, fn, scan>>

vars == <<all_funcs, func, pc, stack, ss, ret, out, stderr, py, exc,
          lines, fn, at, scan, chunks, funcs>>

None == -1

\* ------------------------------------------------------------------ bounds

\* Function names of the small indexes.  The walk starts at "A", in the index
\* or not: the indexes are closed under renaming, so that no root is left out.
Names == {"A", "B", "C"}

\* Stack-frame sizes of the functions of the small indexes.
Sizes == {0, 3, 5, 10}

\* The largest total number of call edges of a small index.
MaxEdges == 2

\* The longest chain f01 -> f02 -> ... of the chain indexes (number of functions).
MaxChain == 23

ChainNames ==
    << "f01", "f02", "f03", "f04", "f05", "f06", "f07", "f08", "f09", "f10",
       "f11", "f12", "f13", "f14", "f15", "f16", "f17", "f18", "f19", "f20",
       "f21", "f22", "f23", "f24", "f25" >>

\* The depth cap of print_call_tree.
MaxLevel == 20

\* ------------------------------------------------------------------ helpers

Max(a, b) == IF a >= b THEN a ELSE b

SetMax(S) == CHOOSE x \in S : \A y \in S : y <= x

Range(s) == {s[k] : k \in 1..Len(s)}

Last(s) == s[Len(s)]

\* The sequences over S without repetition, of length at most n.
InjSeqs(S, n) ==
    {s \in UNION {[1..k -> S] : k \in 0..n} : Cardinality(Range(s)) = Len(s)}

\* ------------------------------------------------------------------ listing lines

\* The whitespace-separated tokens of the rest of an instruction line: the text
\* of the token, and for a token of hexadecimal digits (with or without 0x) the
\* digits.
Word(s) == [t |-> "word", s |-> s, d |-> <<>>]

HexTok(s, d) == [t |-> "hex", s |-> s, d |-> d]

Semi == [t |-> "semi", s |-> ";", d |-> <<>>]

Sym(name) == [t |-> "sym", s |-> name, d |-> <<>>]

\* "00000978 <realloc>:"
HeaderLine(addr, name) ==
    [kind |-> "header", addr |-> addr, name |-> name, opc |-> "",
     has_rest |-> FALSE, rest |-> <<>>]

\* " 9f8:  20 df   rcall  .-448  ; 0x83a <free>": the opcode and the rest.
InstrLine(opc, rest) ==
    [kind |-> "instr", addr |-> <<>>, name |-> "", opc |-> opc,
     has_rest |-> TRUE, rest |-> rest]

\* An instruction line that ends with its opcode: the group "rest" is None.
BareInstr(opc) ==
    [kind |-> "instr", addr |-> <<>>, name |-> "", opc |-> opc,
     has_rest |-> FALSE, rest |-> <<>>]

\* A line that is neither: a blank line, a directive, "Disassembly of section".
TextLine ==
    [kind |-> "text", addr |-> <<>>, name |-> "", opc |-> "",
     has_rest |-> FALSE, rest |-> <<>>]

Push == InstrLine("push", <<Word("r28")>>)

In == InstrLine("in", <<Word("r28,"), HexTok("0x3d", <<3, 13>>), Semi, Word("61")>>)

Sbiw28 == InstrLine("sbiw", <<Word("r28,"), HexTok("0x0e", <<0, 14>>), Semi, Word("14")>>)

Subi28 == InstrLine("subi", <<Word("r28,"), HexTok("0x80", <<8, 0>>), Semi, Word("128")>>)

Sbiw26 == InstrLine("sbiw", <<Word("r26,"), HexTok("0x01", <<0, 1>>), Semi, Word("1")>>)

Movw == InstrLine("movw", <<Word("r24,"), Word("r26")>>)

SbiwBare == BareInstr("sbiw")

SbiwShort == InstrLine("sbiw", <<Word("r28,")>>)

SbiwReg == InstrLine("sbiw", <<Word("r28,"), Word("r1")>>)

\* "<opc>  0x83a  ; 0x83a <name>"
Resolved(opc, name) ==
    InstrLine(opc, <<HexTok("0x83a", <<8, 3, 10>>), Semi, HexTok("0x83a", <<8, 3, 10>>),
                     Sym(name)>>)

CallUnresolved == InstrLine("call", <<HexTok("0x0000", <<0, 0, 0, 0>>)>>)

CallBare == BareInstr("call")

Header == HeaderLine(<<0, 9, 7, 8>>, "realloc")

\* The values the immediates of the listing lines stand for.
ImmValue(tok) ==
    CASE tok.s = "0x0e" -> 14
      [] tok.s = "0x80" -> 128
      [] tok.s = "0x01" -> 1
      [] tok.s = "0x3d" -> 61

\* The most lines after the leading pushes of a frame body, and the most
\* leading pushes.
MaxTail == 3

MaxPush == 3

\* The most lines of a body of call instructions.
MaxCallBody == 3

\* The most blocks of a listing.
MaxChunks == 2

SeqsUpTo(S, n) == UNION {[1..j -> S] : j \in 0..n}

FrameLines == {Push, In, Sbiw28, Subi28, Sbiw26, Movw, TextLine}

CallLines ==
    {Resolved("call", "A"), Resolved("rcall", "B"), Resolved("jmp", "C"),
     Resolved("rjmp", "D"), Resolved("icall", "E"), CallUnresolved, CallBare,
     Movw, TextLine}

\* The sequence s with x put in after its first q elements.
PutIn(s, q, x) == SubSeq(s, 1, q) \o <<x>> \o SubSeq(s, q + 1, Len(s))

\* A header, leading pushes, and any lines after them.
FrameBlocks(pushes, after) ==
    {<<Header>> \o [j \in 1..p |-> Push] \o tail :
        p \in 0..pushes, tail \in SeqsUpTo(FrameLines, after)}

\* A header, leading pushes, and the prologue "in, in, sbiw/subi" with one more
\* line put in anywhere and at most one line after it.
PrologueBlocks(pushes) ==
    {<<Header>> \o [j \in 1..p |-> Push] \o PutIn(<<In, In, sub>>, q, x) \o after :
        p \in 0..pushes, sub \in {Sbiw28, Subi28, Sbiw26}, q \in 0..3,
        x \in FrameLines, after \in SeqsUpTo(FrameLines, 1)}

\* Two "in" and a subtraction whose operands are not "r28, <hex>".
MalformedBlocks ==
    {<<Header, In, In, x>> : x \in {SbiwBare, SbiwShort, SbiwReg}}

\* With a header or without, any lines among the call instructions: the block of
\* no line and the block of a header alone are among them.
CallBlocks(longest) ==
    {h \o body : h \in {<<>>, <<Header>>}, body \in SeqsUpTo(CallLines, longest)}

Blocks(pushes, after, longest) ==
    FrameBlocks(pushes, after) \cup PrologueBlocks(pushes) \cup MalformedBlocks
        \cup CallBlocks(longest)

\* ------------------------------------------------------------------ Function

\* first_line_pat.match(line)
first_line_pat(line) == line.kind = "header"

\* instr_line_pat.match(line.strip())
instr_line_pat(line) == line.kind = "instr"

\* rest_pat.match(rest): "<opnd> ; <addr> <name>" at the start of the rest.
rest_pat(rest) ==
    /\ Len(rest) >= 4
    /\ rest[2].t = "semi"
    /\ rest[3].t = "hex"
    /\ rest[4].t = "sym"

\* int16 as if the digits were decimal.
RECURSIVE int16_decimal(_)
int16_decimal(d) ==
    IF d = <<>> THEN 0
    ELSE 10 * int16_decimal(SubSeq(d, 1, Len(d) - 1)) + d[Len(d)]

\* int(digits, 16)
RECURSIVE int16(_)
int16(d) ==
    IF d = <<>> THEN 0
    ELSE 16 * int16(SubSeq(d, 1, Len(d) - 1)) + d[Len(d)]

NoFunction ==
    [name |-> "", addr |-> 0, body |-> <<>>, callees |-> {}, stacksize |-> None]

NoScan == [count |-> 0, done_pushes |-> FALSE, nr_in |-> 0, brk |-> FALSE, exc |-> ""]

BuildIdle ==
    /\ lines = <<>>
    /\ fn = NoFunction
    /\ at = 0
    /\ scan = NoScan

\* Function.__init__, lines 55-66: the name, the address and the body; lines[0]
\* of a block of no line raises IndexError.
init_header(ls) ==
    IF ls = <<>> THEN [exc |-> "IndexError", fn |-> NoFunction]
    ELSE IF first_line_pat(ls[1])
    THEN [exc |-> "",
          fn  |-> [name |-> ls[1].name, addr |-> int16(ls[1].addr),
                   body |-> Tail(ls), callees |-> {}, stacksize |-> None]]
    ELSE [exc |-> "",
          fn  |-> [name |-> "unknown", addr |-> 0,
                   body |-> ls, callees |-> {}, stacksize |-> None]]

\* analyse_call as if a jmp/rjmp were a call wherever it stands.
analyse_call_AnyJump(callees, line, is_last) ==
    IF ~(line.kind = "instr") THEN [exc |-> "", callees |-> callees]
    ELSE IF line.opc \in {"call", "rcall", "jmp", "rjmp"}
    THEN IF ~line.has_rest THEN [exc |-> "TypeError", callees |-> callees]
         ELSE IF rest_pat(line.rest)
         THEN [exc |-> "", callees |-> callees \cup {line.rest[4].s}]
         ELSE [exc |-> "", callees |-> callees]
    ELSE [exc |-> "", callees |-> callees]

\* Function.analyse_call, lines 75-91, on the callees so far; rest_pat.match(None)
\* raises TypeError.
analyse_call(callees, line, is_last) ==
    IF ~instr_line_pat(line) THEN [exc |-> "", callees |-> callees]
    ELSE IF line.opc \in {"call", "rcall"} \/ (is_last /\ line.opc \in {"jmp", "rjmp"})
    THEN IF ~line.has_rest THEN [exc |-> "TypeError", callees |-> callees]
         ELSE IF rest_pat(line.rest)
         THEN [exc |-> "", callees |-> callees \cup {line.rest[4].s}]
         ELSE [exc |-> "", callees |-> callees]
    ELSE [exc |-> "", callees |-> callees]

\* count_step as if every push counted, also after the first other instruction.
count_step_AnyPush(st, line) ==
    IF ~(line.kind = "instr") THEN st
    ELSE IF line.opc = "push"
    THEN [st EXCEPT !.count = st.count + 1]
    ELSE LET s1 == [st EXCEPT !.done_pushes = TRUE]
         IN  IF s1.nr_in < 2 /\ line.opc = "in"
             THEN [s1 EXCEPT !.nr_in = s1.nr_in + 1]
             ELSE IF s1.nr_in = 2 /\ line.opc \in {"sbiw", "subi"}
             THEN IF ~line.has_rest THEN [s1 EXCEPT !.exc = "AttributeError"]
                  ELSE IF Len(line.rest) = 0 THEN [s1 EXCEPT !.exc = "IndexError"]
                  ELSE IF line.rest[1].s = "r28,"
                  THEN IF Len(line.rest) < 2 THEN [s1 EXCEPT !.exc = "IndexError"]
                       ELSE IF line.rest[2].t # "hex"
                       THEN [s1 EXCEPT !.exc = "ValueError"]
                       ELSE [s1 EXCEPT !.count = s1.count + int16(line.rest[2].d),
                                       !.brk = TRUE]
                  ELSE s1
             ELSE s1

\* Function.count_pushes, lines 100-118: one turn of the loop over the body;
\* None.split() raises AttributeError, v[0] and v[1] IndexError, int() ValueError.
count_step(st, line) ==
    IF ~instr_line_pat(line) THEN st
    ELSE IF ~st.done_pushes /\ line.opc = "push"
    THEN [st EXCEPT !.count = st.count + 1]
    ELSE LET s1 == [st EXCEPT !.done_pushes = TRUE]
         IN  IF s1.nr_in < 2 /\ line.opc = "in"
             THEN [s1 EXCEPT !.nr_in = s1.nr_in + 1]
             ELSE IF s1.nr_in = 2 /\ line.opc \in {"sbiw", "subi"}
             THEN IF ~line.has_rest THEN [s1 EXCEPT !.exc = "AttributeError"]
                  ELSE IF Len(line.rest) = 0 THEN [s1 EXCEPT !.exc = "IndexError"]
                  ELSE IF line.rest[1].s = "r28,"
                  THEN IF Len(line.rest) < 2 THEN [s1 EXCEPT !.exc = "IndexError"]
                       ELSE IF line.rest[2].t # "hex"
                       THEN [s1 EXCEPT !.exc = "ValueError"]
                       ELSE [s1 EXCEPT !.count = s1.count + int16(line.rest[2].d),
                                       !.brk = TRUE]
                  ELSE s1
             ELSE s1

\* Function.__init__, lines 55-66.
Construct ==
    /\ pc = "init"
    /\ LET r == init_header(lines)
       IN  IF r.exc # ""
           THEN /\ pc' = "raised"
                /\ exc' = r.exc
                /\ UNCHANGED <<fn, at>>
           ELSE /\ fn' = r.fn
                /\ at' = 1
                /\ pc' = "calls"
                /\ UNCHANGED exc
    /\ UNCHANGED <<all_funcs, py, lines, scan, chunks, funcs>>
    /\ UNCHANGED walk_vars

\* Function.__init__, lines 67-68: analyse_call on a line of body[:-1].
AnalyseLine ==
    /\ pc = "calls"
    /\ at < Len(fn.body)
    /\ LET r == analyse_call(fn.callees, fn.body[at], FALSE)
       IN  IF r.exc # ""
           THEN /\ pc' = "raised"
                /\ exc' = r.exc
                /\ UNCHANGED <<fn, at>>
           ELSE /\ fn' = [fn EXCEPT !.callees = r.callees]
                /\ at' = at + 1
                /\ UNCHANGED <<pc, exc>>
    /\ UNCHANGED <<all_funcs, py, lines, scan, chunks, funcs>>
    /\ UNCHANGED walk_vars

\* Function.__init__, line 70: analyse_call on body[-1], which may be a tail
\* call; body[-1] of a body of no line raises IndexError.  Then count_pushes
\* starts (lines 96-98).
AnalyseLast ==
    /\ pc = "calls"
    /\ at >= Len(fn.body)
    /\ IF fn.body = <<>>
       THEN /\ pc' = "raised"
            /\ exc' = "IndexError"
            /\ UNCHANGED <<fn, at, scan>>
       ELSE LET r == analyse_call(fn.callees, Last(fn.body), TRUE)
            IN  IF r.exc # ""
                THEN /\ pc' = "raised"
                     /\ exc' = r.exc
                     /\ UNCHANGED <<fn, at, scan>>
                ELSE /\ fn' = [fn EXCEPT !.callees = r.callees]
                     /\ at' = 1
                     /\ scan' = NoScan
                     /\ pc' = "count"
                     /\ UNCHANGED exc
    /\ UNCHANGED <<all_funcs, py, lines, chunks, funcs>>
    /\ UNCHANGED walk_vars

\* Function.count_pushes, lines 99-118: one line of the body.
CountLine ==
    /\ pc = "count"
    /\ at <= Len(fn.body)
    /\ ~scan.brk
    /\ LET st == count_step(scan, fn.body[at])
       IN  IF st.exc # ""
           THEN /\ pc' = "raised"
                /\ exc' = st.exc
                /\ UNCHANGED <<scan, at>>
           ELSE /\ scan' = st
                /\ at' = at + 1
                /\ UNCHANGED <<pc, exc>>
    /\ UNCHANGED <<all_funcs, py, lines, fn, chunks, funcs>>
    /\ UNCHANGED walk_vars

\* Function.count_pushes, line 119, and Function.__init__, line 73.
CountReturn ==
    /\ pc = "count"
    /\ ~(at <= Len(fn.body) /\ ~scan.brk)
    /\ fn' = [fn EXCEPT !.stacksize = scan.count]
    /\ pc' = "built"
    /\ UNCHANGED <<all_funcs, py, exc, lines, at, scan, chunks, funcs>>
    /\ UNCHANGED walk_vars

WalkIdle ==
    /\ func = ""
    /\ stack = <<>>
    /\ ss = None
    /\ ret = [funcname |-> "", level |-> 0, base |-> 0, value |-> None, n |-> 0]
    /\ out = [kind |-> "none", funcname |-> "", stacksize |-> 0, my_stacksize |-> 0,
              level |-> 0]
    /\ stderr = FALSE

BuildInit ==
    /\ lines \in Blocks(MaxPush, MaxTail, MaxCallBody)
    /\ fn = NoFunction
    /\ at = 0
    /\ scan = NoScan
    /\ pc = "init"
    /\ exc = ""
    /\ py = 0
    /\ all_funcs = <<>>
    /\ chunks = <<>>
    /\ funcs = <<>>
    /\ WalkIdle

BuildNext ==
    \/ Construct
    \/ AnalyseLine
    \/ AnalyseLast
    \/ CountLine
    \/ CountReturn

\* The construction of one Function from the lines of a block.
BuildSpec == BuildInit /\ [][BuildNext]_vars

\* ------------------------------------------------------------------ process_lss

\* Function.__init__, lines 67-68: analyse_call over body[:-1], from place j on.
RECURSIVE analyse_body(_, _, _)
analyse_body(callees, body, j) ==
    IF j >= Len(body) THEN [exc |-> "", callees |-> callees]
    ELSE LET r == analyse_call(callees, body[j], FALSE)
         IN  IF r.exc # "" THEN r ELSE analyse_body(r.callees, body, j + 1)

\* Function.count_pushes, lines 95-119: the loop over the body, from place j on.
RECURSIVE count_loop(_, _, _)
count_loop(st, body, j) ==
    IF j > Len(body) \/ st.brk \/ st.exc # "" THEN st
    ELSE count_loop(count_step(st, body[j]), body, j + 1)

count_pushes(body) == count_loop(NoScan, body, 1)

\* Function(lines), lines 54-73: the Function, or the exception raised.
Function(ls) ==
    LET h == init_header(ls)
    IN  IF h.exc # "" THEN h
        ELSE IF h.fn.body = <<>> THEN [exc |-> "IndexError", fn |-> h.fn]
        ELSE LET a == analyse_body({}, h.fn.body, 1)
                 b == IF a.exc # "" THEN a
                      ELSE analyse_call(a.callees, Last(h.fn.body), TRUE)
                 c == count_pushes(h.fn.body)
             IN  IF b.exc # "" THEN [exc |-> b.exc, fn |-> h.fn]
                 ELSE IF c.exc # "" THEN [exc |-> c.exc, fn |-> h.fn]
                 ELSE [exc |-> "",
                       fn  |-> [h.fn EXCEPT !.callees = b.callees,
                                            !.stacksize = c.count]]

\* The blocks of the listings of process_lss: two blocks named A, one named B,
\* two without header, a header alone and a block of no line.
IndexBlocks ==
    {<<HeaderLine(<<1, 0>>, "A"), Resolved("call", "B")>>,
     <<HeaderLine(<<2, 0>>, "A"), Push>>,
     <<HeaderLine(<<3, 0>>, "B"), Push, Push>>,
     <<Push>>,
     <<Movw>>,
     <<HeaderLine(<<4, 0>>, "C")>>,
     <<>>}

\* Insert as if a name already in the index kept its Function.
Insert_KeepFirst(idx, f) ==
    [n \in DOMAIN idx \cup {f.name} |-> IF n \in DOMAIN idx THEN idx[n] ELSE f]

\* process_lss, line 158: all_funcs[f.name] = f.
Insert(idx, f) ==
    [n \in DOMAIN idx \cup {f.name} |-> IF n = f.name THEN f ELSE idx[n]]

\* get_funcs, lines 148-152: map(Function, funcs) builds every Function at once
\* where map is eager, and none yet where it is lazy.
GetFuncs ==
    /\ pc = "lss"
    /\ IF py = 2
       THEN LET built  == [j \in 1..Len(chunks) |-> Function(chunks[j])]
                failed == {j \in 1..Len(chunks) : built[j].exc # ""}
            IN  IF failed # {}
                THEN /\ pc' = "raised"
                     /\ exc' = built[CHOOSE j \in failed : \A h \in failed : j <= h].exc
                     /\ UNCHANGED <<funcs, at>>
                ELSE /\ funcs' = [j \in 1..Len(chunks) |-> built[j].fn]
                     /\ pc' = "insert"
                     /\ at' = 1
                     /\ UNCHANGED exc
       ELSE /\ pc' = "insert"
            /\ at' = 1
            /\ UNCHANGED <<funcs, exc>>
    /\ UNCHANGED <<all_funcs, py, chunks>>
    /\ UNCHANGED build_vars
    /\ UNCHANGED walk_vars

\* process_lss, lines 157-158: the next Function (built here where map is lazy)
\* is entered under its name.
InsertNext ==
    /\ pc = "insert"
    /\ at <= Len(chunks)
    /\ LET f == Function(chunks[at])
       IN  IF f.exc # ""
           THEN /\ pc' = "raised"
                /\ exc' = f.exc
                /\ UNCHANGED <<all_funcs, funcs, at>>
           ELSE /\ all_funcs' = Insert(all_funcs, f.fn)
                /\ funcs' = IF py = 2 THEN funcs ELSE Append(funcs, f.fn)
                /\ at' = at + 1
                /\ UNCHANGED <<pc, exc>>
    /\ UNCHANGED <<py, chunks>>
    /\ UNCHANGED build_vars
    /\ UNCHANGED walk_vars

\* process_lss, line 159.
ProcessDone ==
    /\ pc = "insert"
    /\ at > Len(chunks)
    /\ pc' = "done"
    /\ UNCHANGED <<all_funcs, py, exc, at, chunks, funcs>>
    /\ UNCHANGED build_vars
    /\ UNCHANGED walk_vars

IndexInit ==
    /\ chunks \in SeqsUpTo(IndexBlocks, MaxChunks) \ {<<>>}
    /\ py \in {2, 3}
    /\ pc = "lss"
    /\ all_funcs = <<>>
    /\ funcs = <<>>
    /\ exc = ""
    /\ BuildIdle
    /\ WalkIdle

IndexNext ==
    \/ GetFuncs
    \/ InsertNext
    \/ ProcessDone

\* The Function Index process_lss builds from the blocks of a listing.
IndexSpec == IndexInit /\ [][IndexNext]_vars

\* ------------------------------------------------------------------ the walk

RECURSIVE EdgeCount(_, _)
EdgeCount(ca, D) ==
    IF D = {} THEN 0
    ELSE LET n == CHOOSE x \in D : TRUE
         IN  Len(ca[n]) + EdgeCount(ca, D \ {n})

\* For the functions D of an index, the list the callees property of each
\* returns (its set of callees in iteration order): MaxEdges calls in all.
CalleeLists(D, edges) ==
    {ca \in [D -> InjSeqs(Names, edges)] : EdgeCount(ca, D) <= edges}

\* The indexes over Names as the walk reads them, of so many call edges at
\* most: for each function its stack-frame size and its list of callees.
SmallIndexes(edges) ==
    UNION {{[n \in D |-> [stacksize |-> sz[n], callees |-> ca[n]]] :
               sz \in [D -> Sizes], ca \in CalleeLists(D, edges)} :
           D \in SUBSET Names}

\* f01 -> f02 -> ... -> f<n>, each function calling the next one only.
ChainIndex(n) ==
    [name \in {ChainNames[k] : k \in 1..n} |->
        LET k == CHOOSE j \in 1..n : ChainNames[j] = name
        IN  [stacksize |-> 1 + (k % 3),
             callees   |-> IF k < n THEN <<ChainNames[k + 1]>> ELSE <<>>]]

ChainIndexes(longest) == {ChainIndex(n) : n \in 1..longest}

NoLine == [kind |-> "none", funcname |-> "", stacksize |-> 0, my_stacksize |-> 0,
           level |-> 0]

NoReturn == [funcname |-> "", level |-> 0, base |-> 0, value |-> None, n |-> 0]

Init ==
    /\ \/ all_funcs \in SmallIndexes(MaxEdges) /\ func = "A"
       \/ all_funcs \in ChainIndexes(MaxChain) /\ func = ChainNames[1]
    /\ pc = "main"
    /\ stack = <<>>
    /\ ss = None
    /\ ret = NoReturn
    /\ out = NoLine
    /\ stderr = FALSE
    /\ py = 0
    /\ exc = ""
    /\ BuildIdle
    /\ chunks = <<>>
    /\ funcs = <<>>

\* print_call_tree, lines 171-178: the stack size of the function itself.
my_stacksize_of(funcname) ==
    IF funcname \in DOMAIN all_funcs THEN all_funcs[funcname].stacksize ELSE 0

\* print_call_tree, lines 187-188: the callees the loop runs over.
callees_of(funcname) ==
    IF funcname \in DOMAIN all_funcs THEN all_funcs[funcname].callees ELSE <<>>

\* Visit as if the stack size of the callers were not carried down.
Visit_NoAccumulate(funcname, stacksize, level) ==
    [funcname     |-> funcname,
     base         |-> stacksize,
     my_stacksize |-> my_stacksize_of(funcname),
     stacksize    |-> my_stacksize_of(funcname),
     level        |-> level,
     max_ss       |-> None,
     i            |-> 1,
     pc           |-> "check"]

\* print_call_tree, lines 170-182: the frame of a new invocation, after its line
\* is printed and before the depth check.
Visit(funcname, stacksize, level) ==
    [funcname     |-> funcname,
     base         |-> stacksize,
     my_stacksize |-> my_stacksize_of(funcname),
     stacksize    |-> stacksize + my_stacksize_of(funcname),
     level        |-> level,
     max_ss       |-> None,
     i            |-> 1,
     pc           |-> "check"]

NodeLine(f) ==
    [kind |-> "node", funcname |-> f.funcname, stacksize |-> f.stacksize,
     my_stacksize |-> f.my_stacksize, level |-> f.level]

Marker(kind, f) ==
    [kind |-> kind, funcname |-> f.funcname, stacksize |-> f.stacksize,
     my_stacksize |-> f.my_stacksize, level |-> f.level]

\* NestedTooDeeply as if the cap were one level further.
NestedTooDeeply_OneMore(level) == level > MaxLevel + 1

\* print_call_tree, line 183.
NestedTooDeeply(level) == level > MaxLevel

\* IsRecursiveCall as if no callee were recognised as the function itself.
IsRecursiveCall_Never(c, funcname) == FALSE

\* print_call_tree, line 189.
IsRecursiveCall(c, funcname) == c = funcname

Top == stack[Len(stack)]

Walking == pc = "walk" /\ stack # <<>>

\* MainCall as if main stopped after the warning for a root not in the index.
MainCall_StopWhenMissing ==
    /\ pc = "main"
    /\ stderr' = (func \notin DOMAIN all_funcs)
    /\ IF func \in DOMAIN all_funcs
       THEN /\ stack' = <<Visit(func, 0, 0)>>
            /\ out' = NodeLine(Visit(func, 0, 0))
            /\ pc' = "walk"
       ELSE /\ pc' = "done"
            /\ UNCHANGED <<stack, out>>
    /\ UNCHANGED <<all_funcs, func, ss, ret, py, exc, lines, fn, at, scan, chunks, funcs>>

\* main, lines 203-207: the warning for a root that is not in the index, and the
\* call print_call_tree(args, func, 0, 0).
MainCall ==
    /\ pc = "main"
    /\ stderr' = (func \notin DOMAIN all_funcs)
    /\ stack' = <<Visit(func, 0, 0)>>
    /\ out' = NodeLine(Visit(func, 0, 0))
    /\ pc' = "walk"
    /\ UNCHANGED <<all_funcs, func, ss, ret, py, exc, lines, fn, at, scan, chunks, funcs>>

\* The return of the top invocation with value v: to main (line 207), or to the
\* loop of the calling invocation (lines 192-193), where max(this_ss, max_ss)
\* with this_ss None keeps max_ss (None orders below every int) or raises
\* TypeError (None and int are unorderable), as the interpreter has it.
Return(v, line) ==
    /\ ret' = [funcname |-> Top.funcname, level |-> Top.level, base |-> Top.base,
               value |-> v, n |-> Len(callees_of(Top.funcname))]
    /\ IF Len(stack) = 1
       THEN /\ ss' = v
            /\ stack' = <<>>
            /\ pc' = "returned"
            /\ out' = line
            /\ UNCHANGED <<py, exc>>
       ELSE LET caller == stack[Len(stack) - 1]
                rest   == SubSeq(stack, 1, Len(stack) - 2)
            IN  IF v # None
                THEN /\ stack' = Append(rest, [caller EXCEPT
                                    !.max_ss = Max(v, caller.max_ss),
                                    !.i = caller.i + 1,
                                    !.pc = "loop"])
                     /\ out' = line
                     /\ UNCHANGED <<ss, pc, py, exc>>
                ELSE /\ py' \in (IF py = 0 THEN {2, 3} ELSE {py})
                     /\ out' = line
                     /\ IF py' = 2
                        THEN /\ stack' = Append(rest, [caller EXCEPT
                                            !.i = caller.i + 1,
                                            !.pc = "loop"])
                             /\ UNCHANGED <<ss, pc, exc>>
                        ELSE /\ stack' = <<>>
                             /\ pc' = "raised"
                             /\ exc' = "TypeError"
                             /\ UNCHANGED ss

\* print_call_tree, lines 183-185: the branch is too deep; a bare return.
TooDeep ==
    /\ Walking
    /\ Top.pc = "check"
    /\ NestedTooDeeply(Top.level)
    /\ Return(None, Marker("deep", Top))
    /\ UNCHANGED <<all_funcs, func, stderr, lines, fn, at, scan, chunks, funcs>>

\* print_call_tree, line 186.
EnterLoop ==
    /\ Walking
    /\ Top.pc = "check"
    /\ ~NestedTooDeeply(Top.level)
    /\ stack' = [stack EXCEPT ![Len(stack)] =
                    [Top EXCEPT !.max_ss = Top.stacksize, !.pc = "loop"]]
    /\ UNCHANGED <<all_funcs, func, pc, ss, ret, out, stderr, py, exc, lines, fn, at, scan,
                   chunks, funcs>>

\* print_call_tree, lines 188-190: a callee with the function's own name.
RecursiveCall ==
    /\ Walking
    /\ Top.pc = "loop"
    /\ Top.i <= Len(callees_of(Top.funcname))
    /\ IsRecursiveCall(callees_of(Top.funcname)[Top.i], Top.funcname)
    /\ out' = Marker("recursive", Top)
    /\ stack' = [stack EXCEPT ![Len(stack)] = [Top EXCEPT !.i = Top.i + 1]]
    /\ UNCHANGED <<all_funcs, func, pc, ss, ret, stderr, py, exc, lines, fn, at, scan,
                   chunks, funcs>>

\* print_call_tree, lines 191-192: the recursive call for any other callee.
Descend ==
    /\ Walking
    /\ Top.pc = "loop"
    /\ Top.i <= Len(callees_of(Top.funcname))
    /\ ~IsRecursiveCall(callees_of(Top.funcname)[Top.i], Top.funcname)
    /\ LET child == Visit(callees_of(Top.funcname)[Top.i], Top.stacksize,
                          Top.level + 1)
       IN  /\ stack' = Append([stack EXCEPT ![Len(stack)] =
                                 [Top EXCEPT !.pc = "call"]], child)
           /\ out' = NodeLine(child)
    /\ UNCHANGED <<all_funcs, func, pc, ss, ret, stderr, py, exc, lines, fn, at, scan,
                   chunks, funcs>>

\* print_call_tree, line 194: the loop is over (or func is None).
ReturnMax ==
    /\ Walking
    /\ Top.pc = "loop"
    /\ Top.i > Len(callees_of(Top.funcname))
    /\ Return(Top.max_ss, out)
    /\ UNCHANGED <<all_funcs, func, stderr, lines, fn, at, scan, chunks, funcs>>

\* main, line 208: the summary; "%d" % None raises TypeError.
MainPrint ==
    /\ pc = "returned"
    /\ IF ss # None
       THEN /\ out' = [NoLine EXCEPT !.kind = "summary", !.stacksize = ss]
            /\ pc' = "done"
            /\ UNCHANGED exc
       ELSE /\ pc' = "raised"
            /\ exc' = "TypeError"
            /\ UNCHANGED out
    /\ UNCHANGED <<all_funcs, func, stack, ss, ret, stderr, py, lines, fn, at, scan,
                   chunks, funcs>>

Next ==
    \/ MainCall
    \/ TooDeep
    \/ EnterLoop
    \/ RecursiveCall
    \/ Descend
    \/ ReturnMax
    \/ MainPrint

Spec == Init /\ [][Next]_vars

\* The walk is a sequential program: it takes its next step whenever it has one.
FairSpec == Init /\ [][Next]_vars /\ WF_vars(Next)

\* ------------------------------------------------------------------ the call graph

\* The call graph of the index: the functions a name calls (none when the name
\* is not in the index).
Callees(n) == Range(callees_of(n))

\* The same without the edge from a function to itself.
OtherCallees(n) == Callees(n) \ {n}

AllNames == DOMAIN all_funcs \cup UNION {Callees(n) : n \in DOMAIN all_funcs} \cup {func}

RECURSIVE ReachIn(_, _, _)
ReachIn(S, k, self) ==
    IF k = 0 THEN S
    ELSE LET more == S \cup UNION {(IF self THEN Callees(n) ELSE OtherCallees(n)) :
                                      n \in S}
         IN  IF more = S THEN S ELSE ReachIn(more, k - 1, self)

\* The names reachable from the names of S by one call or more.
ReachedFrom(S, self) ==
    ReachIn(UNION {(IF self THEN Callees(n) ELSE OtherCallees(n)) : n \in S},
            Cardinality(AllNames), self)

\* No function reachable from n (n included) calls itself, directly or not.
Acyclic(n) ==
    \A m \in {n} \cup ReachedFrom({n}, TRUE) : m \notin ReachedFrom({m}, TRUE)

\* The same, direct self-calls set aside.
AcyclicButSelf(n) ==
    \A m \in {n} \cup ReachedFrom({n}, FALSE) : m \notin ReachedFrom({m}, FALSE)

\* The call paths that start at n, of at most k calls.
RECURSIVE CallPaths(_, _, _)
CallPaths(n, k, self) ==
    {<<n>>} \cup
    (IF k = 0 THEN {}
     ELSE {<<n>> \o p :
             p \in UNION {CallPaths(c, k - 1, self) :
                            c \in (IF self THEN Callees(n) ELSE OtherCallees(n))}})

RECURSIVE PathSum(_)
PathSum(p) ==
    IF p = <<>> THEN 0 ELSE my_stacksize_of(Head(p)) + PathSum(Tail(p))

\* Over all call paths from n: the largest sum of stack sizes, and the most calls.
DeepestSum(n, self) ==
    SetMax({PathSum(p) : p \in CallPaths(n, Cardinality(AllNames), self)})

Depth(n) == SetMax({Len(p) - 1 : p \in CallPaths(n, Cardinality(AllNames), TRUE)})

\* What print_call_tree returns for n, entered at a level with the stack size
\* of its callers, on the index without the edges from a function to itself;
\* None where the depth cap cuts the branch, and None below every int.
RECURSIVE ReturnWithoutSelfEdges(_, _, _)
ReturnWithoutSelfEdges(n, base, level) ==
    IF level > MaxLevel THEN None
    ELSE SetMax({base + my_stacksize_of(n)} \cup
                {ReturnWithoutSelfEdges(c, base + my_stacksize_of(n), level + 1) :
                    c \in OtherCallees(n)})

Ended == pc \in {"done", "raised"}

\* ------------------------------------------------------------------ C1

\* C1: when the call graph reachable from the root is acyclic and at most 20
\* levels deep, the walk does not raise and print_call_tree(root, 0, 0) returns
\* the largest sum of stack sizes over the call paths from the root (names that
\* are not in the index count 0), which main prints.
C1_DeepestPathSum ==
    (pc \in {"returned", "done", "raised"} /\ Acyclic(func) /\ Depth(func) <= MaxLevel)
        => /\ pc # "raised"
           /\ ss = DeepestSum(func, TRUE)
           /\ pc = "done" => out.kind = "summary" /\ out.stacksize = ss

\* The example of the claim: A(10) -> B(5) -> C(3) returns 18.
C1_Witness ==
    /\ pc = "done"
    /\ func = "A"
    /\ all_funcs = [n \in Names |->
                      CASE n = "A" -> [stacksize |-> 10, callees |-> <<"B">>]
                        [] n = "B" -> [stacksize |-> 5, callees |-> <<"C">>]
                        [] OTHER   -> [stacksize |-> 3, callees |-> <<>>]]
    /\ ss = 18

\* ------------------------------------------------------------------ C2

\* C2: a branch deeper than 20 levels only halts that branch: every return of
\* print_call_tree hands an integer to its caller and the program never ends in
\* an exception instead of the "Deepest stacksize" summary.
C2_TooDeepHaltsOnlyTheBranch ==
    /\ ret # NoReturn => ret.value # None
    /\ pc # "raised"

\* ------------------------------------------------------------------ C3

\* No invocation is deeper than level 21, and an invocation that has reached
\* its loop over the callees is at level 20 at most.
LevelsCapped ==
    \A k \in 1..Len(stack) :
        /\ stack[k].level = k - 1
        /\ stack[k].level <= MaxLevel + 1
        /\ stack[k].pc \in {"loop", "call"} => stack[k].level <= MaxLevel

\* C3: for every index and root, cycles included, the walk ends, and no node at
\* a level above 20 has its callees expanded (none is visited above level 21).
C3_WalkEndsAndIsCapped == <>Ended /\ []LevelsCapped

\* A cycle has driven the walk to level 21.
C3_Witness ==
    /\ Len(stack) = MaxLevel + 2
    /\ Top.level = MaxLevel + 1
    /\ \E k \in 1..(Len(stack) - 1) : stack[k].funcname = Top.funcname

\* ------------------------------------------------------------------ C4

\* C4: a callee with the function's own name is reported and never descended
\* into: no invocation has the name of the invocation that called it, the stack
\* size of a function is added once to what its caller had accumulated, and the
\* value a function with a self-edge returns is the one of the graph without
\* the self-edges: the largest path sum of that graph where it is acyclic, and
\* in every case what the walk of that graph returns.
C4_SelfEdgeNotDescended ==
    /\ \A k \in 2..Len(stack) :
          /\ stack[k].funcname # stack[k - 1].funcname
          /\ stack[k].base = stack[k - 1].stacksize
    /\ \A k \in 1..Len(stack) :
          stack[k].stacksize = stack[k].base + my_stacksize_of(stack[k].funcname)
    /\ (/\ ret # NoReturn
        /\ ret.funcname \in Callees(ret.funcname)
        /\ AcyclicButSelf(ret.funcname)
        /\ ret.level <= MaxLevel)
          => ret.value = ret.base + DeepestSum(ret.funcname, FALSE)
    /\ (ret # NoReturn /\ ret.funcname \in Callees(ret.funcname))
          => ret.value = ReturnWithoutSelfEdges(ret.funcname, ret.base, ret.level)

\* A function that calls itself and another function has returned, the other
\* function's stack size counted.
C4_Witness ==
    /\ pc = "done"
    /\ func \in Callees(func)
    /\ Cardinality(Callees(func)) = 2
    /\ my_stacksize_of(func) > 0
    /\ ret.funcname = func
    /\ ss > my_stacksize_of(func)

\* ------------------------------------------------------------------ C5

\* C5: a name that is not in the index is walked as a leaf: its own stack size
\* is 0, its cumulative size is its caller's, it has no invocation below it;
\* with the root itself absent main warns, the walk runs and reports 0.
C5_AbsentNameIsLeaf ==
    /\ \A k \in 1..Len(stack) :
          stack[k].funcname \notin DOMAIN all_funcs
              => /\ stack[k].my_stacksize = 0
                 /\ stack[k].stacksize = (IF k = 1 THEN 0 ELSE stack[k - 1].stacksize)
                 /\ k = Len(stack)
                 /\ stack[k].pc # "call"
    /\ func \notin DOMAIN all_funcs
          => /\ pc # "raised"
             /\ pc # "main" => stderr
             /\ pc \in {"returned", "done"} => ss = 0
             /\ pc = "done" => out.kind = "summary" /\ out.stacksize = 0

\* A callee that is not in the index is visited below a function with a frame.
C5_Witness ==
    /\ Len(stack) = 2
    /\ Top.funcname \notin DOMAIN all_funcs
    /\ Top.stacksize > 0
    /\ Top.pc = "loop"

\* ------------------------------------------------------------------ frames

IsInstr(line) == line.kind = "instr"

\* The instruction lines of a body, in order.
Instructions(body) == SelectSeq(body, IsInstr)

\* The number of "push" instructions a sequence of instructions starts with.
RECURSIVE LeadingPushes(_)
LeadingPushes(ins) ==
    IF ins # <<>> /\ Head(ins).opc = "push" THEN 1 + LeadingPushes(Tail(ins)) ELSE 0

\* "sbiw" or "subi" with first operand r28 and a hexadecimal immediate.
IsFrameSub(line) ==
    /\ line.opc \in {"sbiw", "subi"}
    /\ line.has_rest
    /\ Len(line.rest) >= 2
    /\ line.rest[1] = Word("r28,")
    /\ line.rest[2].t = "hex"

NumberOfIn(ins) == Cardinality({j \in 1..Len(ins) : ins[j].opc = "in"})

\* The instruction at place j is the first that departs from the prologue:
\* pushes, then two "in", then sbiw/subi on r28.
DepartsAt(ins, j) ==
    LET p == LeadingPushes(ins)
    IN  /\ j \in (p + 1)..Len(ins)
        /\ j <= p + 3
        /\ \A h \in (p + 1)..(j - 1) : ins[h].opc = "in"
        /\ IF j <= p + 2 THEN ins[j].opc # "in" ELSE ~IsFrameSub(ins[j])

Departs(ins) == \E j \in 1..Len(ins) : DepartsAt(ins, j)

\* The places of the subtractions on r28 that come after two "in" or more (any
\* instructions but pushes between them).
FrameSubs(ins) ==
    {j \in 1..Len(ins) :
        /\ j > LeadingPushes(ins)
        /\ IsFrameSub(ins[j])
        /\ NumberOfIn(SubSeq(ins, LeadingPushes(ins) + 1, j - 1)) >= 2}

SetMin(S) == CHOOSE x \in S : \A y \in S : x <= y

\* ------------------------------------------------------------------ C6

\* C6: a body that starts with P pushes, then two "in", then sbiw/subi on r28
\* with immediate V has stack size P + V whatever follows; a body of N pushes
\* only has stack size N (lines that are no instructions set aside).
C6_CanonicalFrame ==
    pc = "built" =>
        LET ins == Instructions(fn.body)
            p   == LeadingPushes(ins)
        IN  /\ (/\ Len(ins) >= p + 3
                /\ ins[p + 1].opc = "in"
                /\ ins[p + 2].opc = "in"
                /\ IsFrameSub(ins[p + 3]))
                  => fn.stacksize = p + ImmValue(ins[p + 3].rest[2])
            /\ Len(ins) = p => fn.stacksize = p

\* The example of the claim: 3 pushes, in, in, sbiw r28, 0x0e gives 17.
C6_Witness ==
    /\ pc = "built"
    /\ fn.body = <<Push, Push, Push, In, In, Sbiw28>>
    /\ fn.stacksize = 17

\* ------------------------------------------------------------------ C7

\* C7 as claimed: once an instruction departs from the prologue sequence, the
\* count is the one accumulated up to it (the leading pushes), whatever follows.
C7_StopsAtFirstDeparture ==
    (pc = "built" /\ Departs(Instructions(fn.body)))
        => fn.stacksize = LeadingPushes(Instructions(fn.body))

\* C7 as amended: the scan stops counting pushes at the first instruction that is
\* no push, and ends only at the first sbiw/subi on r28 that comes after two
\* "in"; an instruction that departs from the prologue is skipped, so that a
\* later "in" and a later sbiw/subi on r28 still count, and a later push never.
C7_SkipsDepartures ==
    pc = "built" =>
        LET ins  == Instructions(fn.body)
            subs == FrameSubs(ins)
        IN  fn.stacksize =
                LeadingPushes(ins) +
                (IF subs = {} THEN 0 ELSE ImmValue(ins[SetMin(subs)].rest[2]))

\* After a departing instruction the frame subtraction was still added.
C7_Witness ==
    /\ pc = "built"
    /\ fn.body = <<Push, Movw, In, In, Sbiw28>>
    /\ fn.stacksize = 15

\* ------------------------------------------------------------------ C8

\* The name a call or jump line resolves, as a set (empty when none).
ResolvedName(line) ==
    IF line.has_rest /\ rest_pat(line.rest) THEN {line.rest[4].s} ELSE {}

\* The place of the last instruction line of a body, 0 when there is none.
LastInstruction(body) ==
    IF Instructions(body) = <<>> THEN 0
    ELSE SetMax({j \in 1..Len(body) : IsInstr(body[j])})

\* The names of the call/rcall lines, and of a jmp/rjmp line at place tail.
CallEdges(body, tail) ==
    UNION {ResolvedName(body[j]) :
             j \in {h \in 1..Len(body) :
                      /\ IsInstr(body[h])
                      /\ \/ body[h].opc \in {"call", "rcall"}
                         \/ body[h].opc \in {"jmp", "rjmp"} /\ h = tail}}

\* C8 as claimed: the callees are the resolved names of every call/rcall and of
\* a jmp/rjmp exactly when it is the last instruction of the body.
C8_TailCallIsLastInstruction ==
    pc \in {"count", "built"} => fn.callees = CallEdges(fn.body, LastInstruction(fn.body))

\* C8 as amended: ... of a jmp/rjmp exactly when it is on the last line of the
\* body: a jmp/rjmp followed by a line that is no instruction is no callee.
C8_TailCallIsLastLine ==
    pc \in {"count", "built"} => fn.callees = CallEdges(fn.body, Len(fn.body))

\* A jmp in the body is no callee, the rjmp on the last line is one.
C8_Witness ==
    /\ pc = "built"
    /\ fn.body = <<Resolved("jmp", "C"), Resolved("call", "A"), Resolved("rjmp", "D")>>
    /\ fn.callees = {"A", "D"}

\* ------------------------------------------------------------------ C10

\* C10: the construction of a Function from a block never ends in an exception;
\* a block without header is named "unknown", at address 0, its first line in
\* the body.
C10_ConstructionNeverAborts ==
    /\ pc # "raised"
    /\ (pc \in {"calls", "count", "built"} /\ ~first_line_pat(lines[1]))
          => fn.name = "unknown" /\ fn.addr = 0 /\ fn.body = lines

\* ------------------------------------------------------------------ C9

Orders(n) == {p \in [1..n -> 1..n] : \A a, b \in 1..n : p[a] = p[b] => a = b}

\* The index process_lss leaves when the Functions fs are yielded in this order.
RECURSIVE IndexOf(_, _)
IndexOf(fs, idx) ==
    IF fs = <<>> THEN idx ELSE IndexOf(Tail(fs), Insert(idx, Head(fs)))

Reordered(fs, p) == [j \in 1..Len(fs) |-> fs[p[j]]]

\* C9 as claimed: yielding the same blocks in any order leaves the same index,
\* also when several blocks resolve to the same name.
C9_IndexIgnoresOrder ==
    pc = "done" =>
        \A p \in Orders(Len(funcs)) :
            IndexOf(Reordered(funcs, p), <<>>) = all_funcs

\* C9 as amended: the index holds, under each name a block resolves to, the
\* Function of the last block yielded with that name; yielding the blocks in
\* another order leaves the same index when their names are distinct.
C9_LastBlockOfANameWins ==
    pc = "done" =>
        /\ DOMAIN all_funcs = {funcs[j].name : j \in 1..Len(funcs)}
        /\ \A n \in DOMAIN all_funcs :
              all_funcs[n] = funcs[SetMax({j \in 1..Len(funcs) : funcs[j].name = n})]
        /\ (\A a, b \in 1..Len(funcs) : funcs[a].name = funcs[b].name => a = b)
              => \A p \in Orders(Len(funcs)) :
                    IndexOf(Reordered(funcs, p), <<>>) = all_funcs

\* Two different blocks of one name were yielded; the index holds the second.
C9_Witness ==
    /\ pc = "done"
    /\ Len(funcs) = 2
    /\ funcs[1].name = funcs[2].name
    /\ funcs[1] # funcs[2]
    /\ all_funcs[funcs[2].name] = funcs[2]

====
